---- MODULE Spec2Model ----
(***************************************************************************)
(* Model of bot.py: the per-user lesson progression state machine (the     *)
(* users table, /start, the menu callback actions, the lesson issue        *)
(* routine) and the answer verification of the voice and text handlers.    *)
(*                                                                         *)
(* A text is a sequence of one-character strings.  A coroutine handler is  *)
(* a task: one step runs from one await to the next, which is the unit in  *)
(* which the asyncio event loop runs the code.  Consecutive awaits with no *)
(* access to the users table between them are one suspension.              *)
(***************************************************************************)
EXTENDS Integers, Sequences, FiniteSets, TLC

\* ---------------------------------------------------------------- bounds
\* LESSONS_PER_LEVEL is read from the environment (default 25); the model
\* runs a short level.
LESSONS_PER_LEVEL == 3
\* SpecTwo follows the bot for this many updates.
MaxUpdates == 4
\* Accepted answers are counted up to this value (guard of the accept step).
MaxCorrect == 2
\* updates dispatched in a run in which the handlers of one user interleave
MaxDispatched == 5

\* the users of the bot, and the places for suspended coroutines
Users == {1, 2}
Slots == {1, 2}

\* ------------------------------------------------------------- texts
\* str.lower() on the model's alphabet
Lower(c) == CASE c = "A" -> "a" [] c = "B" -> "b" [] c = "C" -> "c"
              [] c = "D" -> "d" [] OTHER -> c

\* the characters normalize_text removes (those of them the model uses)
PUNCT == {".", ",", "!", "?", "-", "[", "]", "(", ")"}

IsSpace(c) == c = " "

RECURSIVE LStrip(_)
LStrip(t) == IF t = <<>> THEN <<>>
             ELSE IF IsSpace(Head(t)) THEN LStrip(Tail(t)) ELSE t

RECURSIVE RStrip(_)
RStrip(t) == IF t = <<>> THEN <<>>
             ELSE IF IsSpace(t[Len(t)]) THEN RStrip(SubSeq(t, 1, Len(t) - 1)) ELSE t

\* str.strip()
Strip(t) == RStrip(LStrip(t))

\* t.replace(ch, "") for every ch of the punctuation list
RemovePunct(t) == SelectSeq(t, LAMBDA c : c \notin PUNCT)

\* " ".join(t.split()): runs of whitespace become one space, none at the ends
RECURSIVE Collapse(_)
Collapse(t) ==
    IF t = <<>> THEN <<>>
    ELSE IF IsSpace(Head(t))
         THEN LET r == LStrip(t) IN
              IF r = <<>> THEN <<>> ELSE <<" ">> \o Collapse(r)
         ELSE <<Head(t)>> \o Collapse(Tail(t))

JoinSplit(t) == Collapse(Strip(t))

normalize_text(t) ==
    IF t = <<>> THEN <<>>
    ELSE JoinSplit(RemovePunct(Strip([i \in 1..Len(t) |-> Lower(t[i])])))

\* ---------------------------------------------- difflib.SequenceMatcher
\* length of the common run of a from i and b from j, inside [.., ahi) x [.., bhi)
RECURSIVE RunLen(_, _, _, _, _, _)
RunLen(a, b, i, j, ahi, bhi) ==
    IF i < ahi /\ j < bhi /\ a[i] = b[j]
    THEN 1 + RunLen(a, b, i + 1, j + 1, ahi, bhi)
    ELSE 0

\* find_longest_match(alo, ahi, blo, bhi): the longest block; of those the one
\* starting earliest in a, and of those the one starting earliest in b.
\* Indices are 1-based, the upper ends exclusive.
find_longest_match(a, b, alo, ahi, blo, bhi) ==
    LET cand == {<<i, j>> \in (alo..(ahi - 1)) \X (blo..(bhi - 1)) : TRUE}
        len(p) == RunLen(a, b, p[1], p[2], ahi, bhi)
        best == IF cand = {} THEN 0
                ELSE CHOOSE k \in {len(p) : p \in cand} :
                         \A q \in cand : len(q) <= k
    IN  IF best = 0 THEN <<alo, blo, 0>>
        ELSE LET top == {p \in cand : len(p) = best}
                 p == CHOOSE p \in top :
                          \A q \in top : p[1] < q[1] \/ (p[1] = q[1] /\ p[2] <= q[2])
             IN <<p[1], p[2], best>>

\* sum of the sizes of get_matching_blocks()
RECURSIVE MatchCount(_, _, _, _, _, _)
MatchCount(a, b, alo, ahi, blo, bhi) ==
    LET m == find_longest_match(a, b, alo, ahi, blo, bhi)
        i == m[1]
        j == m[2]
        k == m[3]
    IN  IF k = 0 THEN 0
        ELSE k + (IF alo < i /\ blo < j THEN MatchCount(a, b, alo, i, blo, j) ELSE 0)
               + (IF i + k < ahi /\ j + k < bhi
                  THEN MatchCount(a, b, i + k, ahi, j + k, bhi) ELSE 0)

\* A score is the float of similarity() in units of 1/SCALE, rounded down.
SCALE == 10000

\* SequenceMatcher(None, a, b).ratio() = 2.0 * matches / (len(a) + len(b))
ratio(a, b) ==
    IF Len(a) + Len(b) = 0 THEN SCALE
    ELSE (2 * MatchCount(a, b, 1, Len(a) + 1, 1, Len(b) + 1) * SCALE) \div (Len(a) + Len(b))

similarity(a, b) ==
    LET a_n == normalize_text(a)
        b_n == normalize_text(b)
    IN  IF a_n = <<>> \/ b_n = <<>> THEN 0 ELSE ratio(a_n, b_n)

THRESHOLD == 7500


\* ------------------------------------------------- the content source
\* The folders the content source serves, and the text file it holds for
\* lesson idx of a folder (a 200 response); any other address is a 404.
Folders == {"easy", "medium", "hard"}
Digit(i) == <<"1", "2", "3", "4", "5", "6", "7", "8", "9">>[i]
Initial(folder) == CASE folder = "easy" -> "a" [] folder = "medium" -> "b" [] OTHER -> "d"
RemoteText(folder, idx) ==
    IF folder = "hard" /\ idx = 2 THEN <<" ">>
    ELSE <<" ", Initial(folder), "b", "c", Digit(idx), " ">>

\* What the learner says or types.
Answers == { <<"A", "b", "c", "1", "!">>, <<"a", "b", "c", "x">>, <<"a", "b">>, <<" ">> }

\* The labels a level button carries (and one no button carries).
Labels == {"oson", "qiyin", "boshqa"}

map_level_label_to_folder(label) ==
    CASE label = "oson" -> "easy"
      [] label = "o'rtacha" -> "medium"
      [] label = "ortacha" -> "medium"
      [] label = "qiyin" -> "hard"
      [] OTHER -> "easy"

\* ------------------------------------------------------------- state
VARIABLES
    users,           \* the users table: user_id -> row, or None
    tasks,           \* the handler coroutines suspended at an await
    files,           \* the temporary audio files on disk, by the slot of their task
    last,            \* what the last handler step did and sent to the chat
    handled,         \* the number of updates dispatched (followed by SpecTwo only)
    BASE_URL,        \* TRUE iff BASE_URL is configured (non-empty)
    OPENAI_API_KEY   \* TRUE iff OPENAI_API_KEY is configured

vars == <<users, tasks, files, last, handled, BASE_URL, OPENAI_API_KEY>>

\* get_user's result for a user without a row
None == [none |-> TRUE]

Idle == [pc |-> "idle", handler |-> "", user |-> 0, user_row |-> None,
         level |-> "", idx |-> 0, heard |-> <<>>]

\* in a private chat the chat id is the user id
ChatOf(u) == u

get_user(tbl, user_id) == tbl[user_id]

\* create_or_update_user(user_id, chat_id, **f): f holds the keyword
\* arguments that are passed and are not None.
InsertValue(f, k, falsy, default) ==
    IF k \in DOMAIN f /\ f[k] # falsy THEN f[k] ELSE default

\* create_or_update_user whose UPDATE statement has no WHERE clause
create_or_update_user_NoWhere(tbl, user_id, chat_id, f) ==
    LET u == get_user(tbl, user_id) IN
    IF u = None
    THEN [tbl EXCEPT ![user_id] =
            [chat_id |-> chat_id,
             level |-> InsertValue(f, "level", "", ""),
             idx |-> InsertValue(f, "idx", 0, 1),
             awaiting |-> InsertValue(f, "awaiting", FALSE, FALSE),
             correct_count |-> InsertValue(f, "correct_count", 0, 0),
             expected_text |-> InsertValue(f, "expected_text", <<>>, <<>>)]]
    ELSE [w \in DOMAIN tbl |->
            IF tbl[w] = None THEN None
            ELSE [k \in DOMAIN tbl[w] |-> IF k \in DOMAIN f THEN f[k] ELSE tbl[w][k]]]

\* create_or_update_user that rewrites the whole row (INSERT OR REPLACE)
create_or_update_user_Replace(tbl, user_id, chat_id, f) ==
    [tbl EXCEPT ![user_id] =
        [chat_id |-> chat_id,
         level |-> InsertValue(f, "level", "", ""),
         idx |-> InsertValue(f, "idx", 0, 1),
         awaiting |-> InsertValue(f, "awaiting", FALSE, FALSE),
         correct_count |-> InsertValue(f, "correct_count", 0, 0),
         expected_text |-> InsertValue(f, "expected_text", <<>>, <<>>)]]

create_or_update_user(tbl, user_id, chat_id, f) ==
    LET u == get_user(tbl, user_id) IN
    IF u = None
    THEN [tbl EXCEPT ![user_id] =
            [chat_id |-> chat_id,
             level |-> InsertValue(f, "level", "", ""),
             idx |-> InsertValue(f, "idx", 0, 1),
             awaiting |-> InsertValue(f, "awaiting", FALSE, FALSE),
             correct_count |-> InsertValue(f, "correct_count", 0, 0),
             expected_text |-> InsertValue(f, "expected_text", <<>>, <<>>)]]
    ELSE [tbl EXCEPT ![user_id] =
            [k \in DOMAIN u |-> IF k \in DOMAIN f THEN f[k] ELSE u[k]]]

\* fetch_text_from_base: the results the call can have
fetch_text_from_base(level_folder, idx) ==
    IF ~BASE_URL THEN {<<>>}
    ELSE {<<>>} \cup (IF level_folder \in Folders
                      THEN {Strip(RemoteText(level_folder, idx))} ELSE {})

\* the fallback text of send_lesson_for_user
Placeholder(level_folder, idx) ==
    <<"[", level_folder, " ", "-", " ", Digit(idx), "]", " ", "(", "m", ")">>

Event(u, ev, res, msg, sim) ==
    [user |-> u, ev |-> ev, res |-> res, msg |-> msg, sim |-> sim]

\* the event of a verdict also names the candidate text that was compared
Graded(u, ev, res, msg, sim, cand) ==
    [user |-> u, ev |-> ev, res |-> res, msg |-> msg, sim |-> sim, cand |-> cand]

\* msg is the message handed to the chat transport; a call of the transport
\* that raises ends the handler (res "raised"), which is followed where code
\* comes after the call.

Init ==
    /\ users = [u \in Users |-> None]
    /\ tasks = [t \in Slots |-> Idle]
    /\ files = {}
    /\ last = Event(0, "init", "", "none", 0)
    /\ handled = 0
    /\ BASE_URL \in BOOLEAN
    /\ OPENAI_API_KEY \in BOOLEAN

Config == UNCHANGED <<BASE_URL, OPENAI_API_KEY>>

\* the slot a new coroutine takes
FreeSlot(t) == tasks[t].pc = "idle" /\ \A s \in Slots : s < t => tasks[s].pc # "idle"
\* a handler of user u is suspended
Busy(u) == \E s \in Slots : tasks[s].pc # "idle" /\ tasks[s].user = u

\* ---------------------------------------------------------- handlers
\* menu_callback awaits query.answer() (line 251) before it touches the
\* table: its branches are followed from the return of that call.  The
\* filter of voice_message_handler passes voice and audio messages only, so
\* the branch of lines 378-380 is not taken.
\* /start that forgets the chosen level as well
start_ResetsLevel(u) ==
    /\ users' = create_or_update_user(users, u, ChatOf(u),
                    [level |-> "", idx |-> 1, awaiting |-> FALSE, correct_count |-> 0,
                     expected_text |-> <<>>])
    /\ last' = Event(u, "start", "ok", "main_menu", 0)
    /\ UNCHANGED <<tasks, files>> /\ Config

\* start: lines 235-247
start(u) ==
    /\ users' = create_or_update_user(users, u, ChatOf(u),
                    [idx |-> 1, awaiting |-> FALSE, correct_count |-> 0,
                     expected_text |-> <<>>])
    /\ last' = Event(u, "start", "ok", "main_menu", 0)
    /\ UNCHANGED <<tasks, files>> /\ Config

Finish(t) == [tasks EXCEPT ![t] = Idle]
Suspend(t, u, handler, pc) ==
    [tasks EXCEPT ![t] = [Idle EXCEPT !.pc = pc, !.handler = handler, !.user = u]]

\* level choice that leaves the counter of accepted answers as it was
level_chosen_KeepsCount(t, u, label) ==
    LET folder == map_level_label_to_folder(label) IN
    /\ FreeSlot(t)
    /\ users' = create_or_update_user(users, u, ChatOf(u),
                    [level |-> folder, idx |-> 1, awaiting |-> FALSE,
                     expected_text |-> <<>>])
    /\ tasks' = Suspend(t, u, "level", "send_lesson")
    /\ last' = Event(u, "level", "chosen", label, 0)
    /\ UNCHANGED files /\ Config

\* menu_callback, data "level:<label>": lines 278-283, up to the await of
\* edit_message_text; the event carries the label of the callback data
level_chosen(t, u, label) ==
    LET folder == map_level_label_to_folder(label) IN
    /\ FreeSlot(t)
    /\ users' = create_or_update_user(users, u, ChatOf(u),
                    [level |-> folder, idx |-> 1, awaiting |-> FALSE,
                     correct_count |-> 0, expected_text |-> <<>>])
    /\ tasks' = Suspend(t, u, "level", "send_lesson")
    /\ last' = Event(u, "level", "chosen", label, 0)
    /\ UNCHANGED files /\ Config

\* retry that also forgets the text of the lesson
retry_ClearsExpected(u) ==
    /\ users' = create_or_update_user(users, u, ChatOf(u),
                    [awaiting |-> TRUE, expected_text |-> <<>>])
    /\ last' = Event(u, "retry", "ok", "send_voice_again", 0)
    /\ UNCHANGED <<tasks, files>> /\ Config

\* menu_callback, data "action:retry": lines 322-327
retry(u) ==
    /\ users' = create_or_update_user(users, u, ChatOf(u), [awaiting |-> TRUE])
    /\ last' = Event(u, "retry", "ok", "send_voice_again", 0)
    /\ UNCHANGED <<tasks, files>> /\ Config

\* skip / next that store the incremented position before testing it
advance_StoresFirst(t, u, handler) ==
    LET user == get_user(users, u) IN
    /\ FreeSlot(t)
    /\ IF user = None
       THEN /\ last' = Event(u, handler, "no_state", "state_not_found", 0)
            /\ UNCHANGED <<users, tasks>>
       ELSE LET new_idx == (IF user.idx # 0 THEN user.idx ELSE 1) + 1 IN
            /\ users' = create_or_update_user(users, u, ChatOf(u),
                            [idx |-> new_idx, awaiting |-> FALSE, expected_text |-> <<>>])
            /\ IF new_idx > LESSONS_PER_LEVEL
               THEN /\ tasks' = Suspend(t, u, handler, "level_done")
                    /\ last' = Event(u, handler, "level_end", "none", 0)
               ELSE /\ tasks' = Suspend(t, u, handler, "send_lesson")
                    /\ last' = Event(u, handler, "advanced", "none", 0)
    /\ UNCHANGED files /\ Config

\* menu_callback, data "action:skip" (lines 329-342) and "action:next"
\* (lines 346-358), up to the first await
advance(t, u, handler) ==
    LET user == get_user(users, u) IN
    /\ FreeSlot(t)
    /\ IF user = None
       THEN /\ last' = Event(u, handler, "no_state", "state_not_found", 0)
            /\ UNCHANGED <<users, tasks>>
       ELSE LET new_idx == (IF user.idx # 0 THEN user.idx ELSE 1) + 1 IN
            IF new_idx > LESSONS_PER_LEVEL
            THEN /\ tasks' = Suspend(t, u, handler, "level_done")
                 /\ last' = Event(u, handler, "level_end", "none", 0)
                 /\ UNCHANGED users
            ELSE /\ users' = create_or_update_user(users, u, ChatOf(u),
                                [idx |-> new_idx, awaiting |-> FALSE, expected_text |-> <<>>])
                 /\ tasks' = Suspend(t, u, handler, "send_lesson")
                 /\ last' = Event(u, handler, "advanced", "none", 0)
    /\ UNCHANGED files /\ Config

skip(t, u) == advance(t, u, "skip")

next(t, u) == advance(t, u, "next")

\* skip / next after the completion notice was sent: lines 337-340, 353-356
level_done(t) ==
    LET u == tasks[t].user IN
    /\ tasks[t].pc = "level_done"
    /\ \E ok \in BOOLEAN :
         IF ok
         THEN /\ users' = create_or_update_user(users, u, ChatOf(u),
                              [awaiting |-> FALSE, idx |-> 1, expected_text |-> <<>>])
              /\ last' = Event(u, tasks[t].handler, "completed", "level_finished", 0)
         ELSE /\ last' = Event(u, tasks[t].handler, "raised", "none", 0)
              /\ UNCHANGED users
    /\ tasks' = Finish(t)
    /\ UNCHANGED files /\ Config

\* send_lesson_for_user, lines 159-174: entered when the caller's
\* edit_message_text returned; runs up to the await of the fetch or of the
\* completion notice.
send_lesson_for_user(t) ==
    LET u == tasks[t].user
        user == get_user(users, u) IN
    /\ tasks[t].pc = "send_lesson"
    /\ \E ok \in BOOLEAN :
         IF ~ok
         THEN /\ tasks' = Finish(t)
              /\ last' = Event(u, tasks[t].handler, "raised", "none", 0)
         ELSE IF user = None
         THEN /\ tasks' = Finish(t)
              /\ last' = Event(u, tasks[t].handler, "no_user", "edited", 0)
         ELSE /\ tasks' = [tasks EXCEPT ![t].pc = "issue",
                                        ![t].level = IF user.level # "" THEN user.level ELSE "easy",
                                        ![t].idx = IF user.idx # 0 THEN user.idx ELSE 1]
              /\ last' = Event(u, tasks[t].handler, "lesson_read", "edited", 0)
    /\ UNCHANGED <<users, files>> /\ Config

\* send_lesson_for_user without the fallback text of lines 175-177
lesson_issued_NoFallback(t) ==
    LET u == tasks[t].user
        level_folder == tasks[t].level
        idx == tasks[t].idx IN
    /\ tasks[t].pc = "issue"
    /\ IF idx > LESSONS_PER_LEVEL
       THEN \E ok \in BOOLEAN :
              IF ok
              THEN /\ users' = create_or_update_user(users, u, ChatOf(u),
                                  [idx |-> 1, awaiting |-> FALSE, correct_count |-> 0,
                                   expected_text |-> <<>>])
                   /\ last' = Event(u, tasks[t].handler, "completed", "level_completed", 0)
              ELSE /\ last' = Event(u, tasks[t].handler, "raised", "none", 0)
                   /\ UNCHANGED users
       ELSE \E got \in fetch_text_from_base(level_folder, idx), ok \in BOOLEAN :
              IF ok
              THEN /\ users' = create_or_update_user(users, u, ChatOf(u),
                                  [expected_text |-> got, awaiting |-> TRUE])
                   /\ last' = Event(u, tasks[t].handler, "issued", "keyboard", 0)
              ELSE /\ last' = Event(u, tasks[t].handler, "raised", "none", 0)
                   /\ UNCHANGED users
    /\ tasks' = Finish(t)
    /\ UNCHANGED files /\ Config

\* send_lesson_for_user, lines 166-170 and 174-206: after the awaits
lesson_issued(t) ==
    LET u == tasks[t].user
        level_folder == tasks[t].level
        idx == tasks[t].idx IN
    /\ tasks[t].pc = "issue"
    /\ IF idx > LESSONS_PER_LEVEL
       THEN \E ok \in BOOLEAN :
              IF ok
              THEN /\ users' = create_or_update_user(users, u, ChatOf(u),
                                  [idx |-> 1, awaiting |-> FALSE, correct_count |-> 0,
                                   expected_text |-> <<>>])
                   /\ last' = Event(u, tasks[t].handler, "completed", "level_completed", 0)
              ELSE /\ last' = Event(u, tasks[t].handler, "raised", "none", 0)
                   /\ UNCHANGED users
       ELSE \E got \in fetch_text_from_base(level_folder, idx), ok \in BOOLEAN :
              LET text_content == IF got = <<>> THEN Placeholder(level_folder, idx) ELSE got IN
              IF ok
              THEN /\ users' = create_or_update_user(users, u, ChatOf(u),
                                  [expected_text |-> text_content, awaiting |-> TRUE])
                   /\ last' = Event(u, tasks[t].handler, "issued", "keyboard", 0)
              ELSE /\ last' = Event(u, tasks[t].handler, "raised", "none", 0)
                   /\ UNCHANGED users
    /\ tasks' = Finish(t)
    /\ UNCHANGED files /\ Config

\* a verdict that moves to the next lesson when it accepts
Grade_AcceptAdvances(t, u, handler, user_row, expected, candidate) ==
    LET sim == similarity(expected, candidate) IN
    /\ IF sim >= THRESHOLD
       THEN /\ users' = create_or_update_user(users, u, ChatOf(u),
                           [awaiting |-> FALSE, idx |-> user_row.idx + 1,
                            correct_count |-> user_row.correct_count + 1])
            /\ last' = Graded(u, handler, "accept", "correct", sim, candidate)
       ELSE /\ last' = Graded(u, handler, "reject", "incorrect", sim, candidate)
            /\ UNCHANGED users
    /\ tasks' = Finish(t)

\* a verdict that stops waiting for an answer when it rejects
Grade_RejectClears(t, u, handler, user_row, expected, candidate) ==
    LET sim == similarity(expected, candidate) IN
    /\ IF sim >= THRESHOLD
       THEN /\ users' = create_or_update_user(users, u, ChatOf(u),
                           [awaiting |-> FALSE,
                            correct_count |-> user_row.correct_count + 1])
            /\ last' = Graded(u, handler, "accept", "correct", sim, candidate)
       ELSE /\ users' = create_or_update_user(users, u, ChatOf(u), [awaiting |-> FALSE])
            /\ last' = Graded(u, handler, "reject", "incorrect", sim, candidate)
    /\ tasks' = Finish(t)

\* a verdict that accepts only above the threshold
Grade_Strict(t, u, handler, user_row, expected, candidate) ==
    LET sim == similarity(expected, candidate) IN
    /\ IF sim > THRESHOLD
       THEN /\ users' = create_or_update_user(users, u, ChatOf(u),
                           [awaiting |-> FALSE,
                            correct_count |-> user_row.correct_count + 1])
            /\ last' = Graded(u, handler, "accept", "correct", sim, candidate)
       ELSE /\ last' = Graded(u, handler, "reject", "incorrect", sim, candidate)
            /\ UNCHANGED users
    /\ tasks' = Finish(t)

\* verdict that is more lenient with a transcription than with a typed text
Grade_VoiceLenient(t, u, handler, user_row, expected, candidate) ==
    LET sim == similarity(expected, candidate) IN
    /\ IF sim >= (IF handler = "voice" THEN THRESHOLD - 1000 ELSE THRESHOLD)
       THEN /\ users' = create_or_update_user(users, u, ChatOf(u),
                           [awaiting |-> FALSE,
                            correct_count |-> user_row.correct_count + 1])
            /\ last' = Graded(u, handler, "accept", "correct", sim, candidate)
       ELSE /\ last' = Graded(u, handler, "reject", "incorrect", sim, candidate)
            /\ UNCHANGED users
    /\ tasks' = Finish(t)

\* the verdict of both answer handlers: lines 426-446 and 462-473
Grade(t, u, handler, user_row, expected, candidate) ==
    LET sim == similarity(expected, candidate) IN
    /\ IF sim >= THRESHOLD
       THEN /\ users' = create_or_update_user(users, u, ChatOf(u),
                           [awaiting |-> FALSE,
                            correct_count |-> user_row.correct_count + 1])
            /\ last' = Graded(u, handler, "accept", "correct", sim, candidate)
       ELSE /\ last' = Graded(u, handler, "reject", "incorrect", sim, candidate)
            /\ UNCHANGED users
    /\ tasks' = Finish(t)

\* the counter of accepted answers is followed up to MaxCorrect
InBound(u) == IF users[u] = None THEN TRUE ELSE users[u].correct_count < MaxCorrect

\* voice_message_handler, lines 369-385: up to the await of get_file
voice_message_handler(t, u) ==
    LET user_row == get_user(users, u) IN
    /\ FreeSlot(t)
    /\ InBound(u)
    /\ IF user_row = None \/ ~user_row.awaiting
       THEN /\ last' = Event(u, "voice", "nothing_pending", "no_task", 0)
            /\ UNCHANGED tasks
       ELSE /\ tasks' = [tasks EXCEPT ![t] = [Idle EXCEPT !.pc = "download", !.handler = "voice",
                                                         !.user = u, !.user_row = user_row]]
            /\ last' = Event(u, "voice", "downloading", "none", 0)
    /\ UNCHANGED <<users, files>> /\ Config

\* voice_message_handler, lines 385-408: get_file and download_to_drive
\* returned or raised
voice_downloaded(t) ==
    LET u == tasks[t].user IN
    /\ tasks[t].pc = "download"
    /\ \E outcome \in {"get_file_raised", "download_raised", "ok"}, ok \in BOOLEAN :
         CASE outcome = "get_file_raised" ->
                /\ ok
                /\ tasks' = Finish(t)
                /\ last' = Event(u, "voice", "download_failed", "not_downloaded", 0)
                /\ UNCHANGED files
           [] outcome = "download_raised" ->
                /\ tasks' = Finish(t)
                /\ last' = IF ok THEN Event(u, "voice", "download_failed", "not_downloaded", 0)
                                 ELSE Event(u, "voice", "raised", "none", 0)
                /\ files' = IF ok THEN files \ {t} ELSE files \cup {t}
           [] outcome = "ok" ->
                IF OPENAI_API_KEY
                THEN /\ ok
                     /\ tasks' = [tasks EXCEPT ![t].pc = "transcribe"]
                     /\ last' = Event(u, "voice", "transcribing", "none", 0)
                     /\ files' = files \cup {t}
                ELSE /\ ok
                     /\ tasks' = Finish(t)
                     /\ last' = Event(u, "voice", "no_key", "no_api_key", 0)
                     /\ files' = files \ {t}
    /\ UNCHANGED users /\ Config

\* voice handler that gives the lesson up when the transcription fails
voice_transcribed_FailClears(t) ==
    LET u == tasks[t].user
        user_row == tasks[t].user_row IN
    /\ tasks[t].pc = "transcribe"
    /\ files' = files \ {t}
    /\ \/ /\ tasks' = Finish(t)
          /\ last' = Event(u, "voice", "transcribe_failed", "transcribe_error", 0)
          /\ users' = create_or_update_user(users, u, ChatOf(u), [awaiting |-> FALSE])
       \/ \E said \in Answers :
            LET transcribed == Strip(said)
                expected == Strip(user_row.expected_text) IN
            IF expected = <<>>
            THEN /\ tasks' = [tasks EXCEPT ![t].pc = "refetch", ![t].heard = transcribed]
                 /\ last' = Event(u, "voice", "refetching", "none", 0)
                 /\ UNCHANGED users
            ELSE Grade(t, u, "voice", user_row, expected, transcribed)
    /\ Config

\* voice_message_handler, lines 402-446: transcribe_with_openai returned a
\* text or raised
voice_transcribed(t) ==
    LET u == tasks[t].user
        user_row == tasks[t].user_row IN
    /\ tasks[t].pc = "transcribe"
    /\ files' = files \ {t}
    /\ \/ /\ tasks' = Finish(t)
          /\ last' = Event(u, "voice", "transcribe_failed", "transcribe_error", 0)
          /\ UNCHANGED users
       \/ \E said \in Answers :
            LET transcribed == Strip(said)
                expected == Strip(user_row.expected_text) IN
            IF expected = <<>>
            THEN /\ tasks' = [tasks EXCEPT ![t].pc = "refetch", ![t].heard = transcribed]
                 /\ last' = Event(u, "voice", "refetching", "none", 0)
                 /\ UNCHANGED users
            ELSE Grade(t, u, "voice", user_row, expected, transcribed)
    /\ Config

\* text_message_handler, lines 452-473
text_message_handler(t, u) ==
    LET user_row == get_user(users, u) IN
    /\ FreeSlot(t)
    /\ InBound(u)
    /\ IF user_row = None \/ ~user_row.awaiting
       THEN /\ last' = Event(u, "text", "nothing_pending", "none", 0)
            /\ UNCHANGED <<users, tasks>>
       ELSE \E typed \in Answers :
              LET user_answer == Strip(typed)
                  expected == Strip(user_row.expected_text) IN
              IF expected = <<>>
              THEN /\ tasks' = [tasks EXCEPT ![t] = [Idle EXCEPT !.pc = "refetch", !.handler = "text",
                                    !.user = u, !.user_row = user_row, !.heard = user_answer]]
                   /\ last' = Event(u, "text", "refetching", "none", 0)
                   /\ UNCHANGED users
              ELSE Grade(t, u, "text", user_row, expected, user_answer)
    /\ UNCHANGED files /\ Config

\* both answer handlers after the await of fetch_text_from_base: lines
\* 423-446 and 461-473
refetched(t) ==
    LET user_row == tasks[t].user_row IN
    /\ tasks[t].pc = "refetch"
    /\ \E expected \in fetch_text_from_base(user_row.level, user_row.idx) :
         Grade(t, tasks[t].user, tasks[t].handler, user_row, expected, tasks[t].heard)
    /\ UNCHANGED files /\ Config

\* ------------------------------------------------------ specifications
\* The updates of one user are handled in arrival order, one after the other.
Arrival(u) == ~Busy(u) /\ UNCHANGED handled

\* A suspended coroutine is resumed.
Resumed == UNCHANGED handled

\* One learner.
Learners == {1}

Next ==
    \/ \E u \in Learners : Arrival(u) /\ start(u)
    \/ \E u \in Learners, t \in Slots, label \in Labels : Arrival(u) /\ level_chosen(t, u, label)
    \/ \E u \in Learners : Arrival(u) /\ retry(u)
    \/ \E u \in Learners, t \in Slots : Arrival(u) /\ skip(t, u)
    \/ \E u \in Learners, t \in Slots : Arrival(u) /\ next(t, u)
    \/ \E u \in Learners, t \in Slots : Arrival(u) /\ voice_message_handler(t, u)
    \/ \E u \in Learners, t \in Slots : Arrival(u) /\ text_message_handler(t, u)
    \/ \E t \in Slots : Resumed /\ send_lesson_for_user(t)
    \/ \E t \in Slots : Resumed /\ lesson_issued(t)
    \/ \E t \in Slots : Resumed /\ level_done(t)
    \/ \E t \in Slots : Resumed /\ voice_downloaded(t)
    \/ \E t \in Slots : Resumed /\ voice_transcribed(t)
    \/ \E t \in Slots : Resumed /\ refetched(t)

Spec == Init /\ [][Next]_vars

\* Two learners, for MaxUpdates updates: the handlers of different users
\* interleave at their awaits.
Counted(u) == ~Busy(u) /\ handled < MaxUpdates /\ handled' = handled + 1

NextTwo ==
    \/ \E u \in Users : Counted(u) /\ start(u)
    \/ \E u \in Users, t \in Slots, label \in Labels : Counted(u) /\ level_chosen(t, u, label)
    \/ \E u \in Users : Counted(u) /\ retry(u)
    \/ \E u \in Users, t \in Slots : Counted(u) /\ skip(t, u)
    \/ \E u \in Users, t \in Slots : Counted(u) /\ next(t, u)
    \/ \E u \in Users, t \in Slots : Counted(u) /\ voice_message_handler(t, u)
    \/ \E u \in Users, t \in Slots : Counted(u) /\ text_message_handler(t, u)
    \/ \E t \in Slots : Resumed /\ send_lesson_for_user(t)
    \/ \E t \in Slots : Resumed /\ lesson_issued(t)
    \/ \E t \in Slots : Resumed /\ level_done(t)
    \/ \E t \in Slots : Resumed /\ voice_downloaded(t)
    \/ \E t \in Slots : Resumed /\ voice_transcribed(t)
    \/ \E t \in Slots : Resumed /\ refetched(t)

SpecTwo == Init /\ [][NextTwo]_vars

\* One learner whose updates are dispatched without waiting for the handler
\* of the update before: the handlers of the same user interleave at their
\* awaits, as many at a time as there are slots.
Dispatched == handled < MaxDispatched /\ handled' = handled + 1

NextConc ==
    \/ \E u \in Learners : Dispatched /\ start(u)
    \/ \E u \in Learners, t \in Slots, label \in Labels : Dispatched /\ level_chosen(t, u, label)
    \/ \E u \in Learners : Dispatched /\ retry(u)
    \/ \E u \in Learners, t \in Slots : Dispatched /\ skip(t, u)
    \/ \E u \in Learners, t \in Slots : Dispatched /\ next(t, u)
    \/ \E u \in Learners, t \in Slots : Dispatched /\ voice_message_handler(t, u)
    \/ \E u \in Learners, t \in Slots : Dispatched /\ text_message_handler(t, u)
    \/ \E t \in Slots : Resumed /\ send_lesson_for_user(t)
    \/ \E t \in Slots : Resumed /\ lesson_issued(t)
    \/ \E t \in Slots : Resumed /\ level_done(t)
    \/ \E t \in Slots : Resumed /\ voice_downloaded(t)
    \/ \E t \in Slots : Resumed /\ voice_transcribed(t)
    \/ \E t \in Slots : Resumed /\ refetched(t)

\* the deployment with the content base and the transcription key configured
InitConc == Init /\ BASE_URL /\ OPENAI_API_KEY

SpecConc == InitConc /\ [][NextConc]_vars

\* create_or_update_user called on its own: every keyword argument is either
\* left out (None) or passed with one of the values below, the falsy value of
\* its type among them.
Passable ==
    [level |-> {"", "hard"}, idx |-> {0, 1, 2}, awaiting |-> BOOLEAN,
     correct_count |-> {0, 1}, expected_text |-> {<<>>, <<"a">>}]

Opt(S) == {<<>>} \cup {<<x>> : x \in S}

Keywords(level, idx, awaiting, correct_count, expected_text) ==
    LET o == [level |-> level, idx |-> idx, awaiting |-> awaiting,
              correct_count |-> correct_count, expected_text |-> expected_text]
    IN  [k \in {j \in DOMAIN o : o[j] # <<>>} |-> o[k][1]]

Kwargs ==
    {Keywords(l, i, a, c, e) : l \in Opt(Passable.level), i \in Opt(Passable.idx),
                               a \in Opt(Passable.awaiting),
                               c \in Opt(Passable.correct_count),
                               e \in Opt(Passable.expected_text)}

upsert(u, f) ==
    /\ users' = create_or_update_user(users, u, ChatOf(u), f)
    /\ last' = [user |-> u, ev |-> "upsert", res |-> "ok", msg |-> "none", sim |-> 0,
                f |-> f]
    /\ UNCHANGED <<tasks, files, handled>> /\ Config

NextUpsert == \E u \in Learners, f \in Kwargs : upsert(u, f)

SpecUpsert == Init /\ [][NextUpsert]_vars

TypeOK ==
    /\ \A u \in Users : users[u] = None \/
          /\ users[u].idx \in 1..LESSONS_PER_LEVEL
          /\ users[u].correct_count \in 0..MaxCorrect
          /\ users[u].awaiting \in BOOLEAN
          /\ users[u].level \in Folders \cup {""}
    /\ files \subseteq Slots

\* ------------------------------------------------------------- claims
\* Every action sets last, so in a step that changes the state last' names
\* the handler step that was taken and the user it was taken for.

HasRow(u) == users[u] # None

\* C1: in every reachable state, a row with awaiting set has a non-empty
\* expected_text.
C1_AwaitingHasExpected ==
    \A u \in Users : HasRow(u) => (users[u].awaiting => users[u].expected_text # <<>>)

\* C2: a skip or next below the last lesson moves the position up by one
\* without completion, completion is reached exactly from position
\* LESSONS_PER_LEVEL, and completion leaves position 1, awaiting false,
\* expected_text empty and correct_count 0.
C2_Advance ==
    [][LET u == last'.user IN
       /\ last'.res = "advanced" =>
             /\ users[u].idx < LESSONS_PER_LEVEL
             /\ users' = [users EXCEPT ![u].idx = @ + 1, ![u].awaiting = FALSE,
                                       ![u].expected_text = <<>>]
       /\ last'.res = "level_end" => users[u].idx = LESSONS_PER_LEVEL /\ users' = users
       /\ last'.res = "completed" =>
             users' = [users EXCEPT ![u].idx = 1, ![u].awaiting = FALSE,
                                    ![u].expected_text = <<>>]]_vars

C2_CompletionResets ==
    [][LET u == last'.user IN
       last'.res = "completed" =>
          /\ users'[u].idx = 1
          /\ ~users'[u].awaiting
          /\ users'[u].expected_text = <<>>
          /\ users'[u].correct_count = 0]_vars

\* C3: an accepted answer adds exactly one to correct_count and clears
\* awaiting; position, level and expected_text keep their values.
C3_AcceptEffect ==
    [][LET u == last'.user IN
       last'.res = "accept" =>
          /\ HasRow(u) /\ users[u].awaiting
          /\ users' = [users EXCEPT ![u].correct_count = @ + 1, ![u].awaiting = FALSE]]_vars

C3_Witness ==
    /\ last.res = "accept" /\ last.ev = "voice"
    /\ users[last.user].correct_count = 1
    /\ ~users[last.user].awaiting
    /\ users[last.user].expected_text # <<>>

\* C4: a rejected answer leaves the users table as it was, awaiting still set.
C4_RejectFrame ==
    [][LET u == last'.user IN
       last'.res = "reject" =>
          /\ users' = users
          /\ users'[u].awaiting]_vars

C4_Witness ==
    /\ last.res = "reject" /\ last.ev = "text"
    /\ users[last.user].awaiting
    /\ users[last.user].correct_count = 1

\* C5: an answer sent when there is no row or awaiting is not set changes no
\* row and is answered with the notice that no task is pending.
C5_NothingPending ==
    [][LET u == last'.user IN
       (last'.ev \in {"voice", "text"} /\ (~HasRow(u) \/ ~users[u].awaiting)) =>
          /\ users' = users
          /\ last'.msg = "no_task"]_vars

C5_NoMutation ==
    [][LET u == last'.user IN
       (last'.ev \in {"voice", "text"} /\ (~HasRow(u) \/ ~users[u].awaiting)) =>
          /\ users' = users
          /\ last'.res = "nothing_pending"
          /\ tasks' = tasks]_vars

\* C6: retry, skip and next for a user without a row are answered with the
\* "state not found" alert and leave the user without a row.
C6_NoStateRejected ==
    [][LET u == last'.user IN
       (last'.ev \in {"retry", "skip", "next"} /\ ~HasRow(u)) =>
          /\ users'[u] = None
          /\ last'.msg = "state_not_found"]_vars

C6_SkipNextRejected ==
    [][LET u == last'.user IN
       (last'.ev \in {"skip", "next"} /\ ~HasRow(u)) =>
          /\ users' = users
          /\ last'.msg = "state_not_found"]_vars

\* C7: a graded answer is accepted (counted, awaiting cleared, answered
\* "correct") if and only if its score is at least THRESHOLD.
C7_Threshold ==
    [][LET u == last'.user
           counted == /\ users'[u].correct_count = users[u].correct_count + 1
                      /\ ~users'[u].awaiting
                      /\ last'.msg = "correct"
       IN  last'.res \in {"accept", "reject"} =>
              /\ last'.sim \in 0..SCALE
              /\ counted <=> last'.sim >= THRESHOLD
              /\ ~counted => (users' = users /\ last'.msg = "incorrect")]_vars

\* the boundary score itself is accepted
C7_Witness ==
    /\ last.res = "accept" /\ last.sim = THRESHOLD /\ last.ev = "voice"
    /\ users[last.user].correct_count = 1

\* C8: retry on an existing row sets awaiting and changes nothing else, and a
\* second retry in a row changes nothing at all.
C8_RetryIdempotent ==
    [][LET u == last'.user IN
       (last'.ev = "retry" /\ HasRow(u)) =>
          /\ users' = [users EXCEPT ![u].awaiting = TRUE]
          /\ (last.ev = "retry" /\ last.user = u) => users' = users]_vars

C8_Witness ==
    /\ last.ev = "retry"
    /\ users[last.user].awaiting
    /\ users[last.user].expected_text # <<>>
    /\ users[last.user].idx > 1
    /\ users[last.user].correct_count > 0

\* C9: a handler step taken for one user leaves the row (or the absence of a
\* row) of every other user as it was.
C9_Isolation ==
    [][\A b \in Users : b # last'.user => users'[b] = users[b]]_vars

C9_Witness ==
    /\ last.user = 1 /\ last.res = "accept"
    /\ HasRow(2) /\ users[2].awaiting /\ users[2].level = "hard"
    /\ \E t \in Slots : tasks[t].pc = "transcribe" /\ tasks[t].user = 2

\* C10: an issued lesson leaves awaiting set and expected_text equal to the
\* fetched text, or to the placeholder naming the level and the index when
\* nothing was fetched; position and correct_count keep their values.
Contains(t, c) == \E i \in 1..Len(t) : t[i] = c

C10_IssueEffect ==
    [][LET u == last'.user
           level_folder == IF users[u].level # "" THEN users[u].level ELSE "easy"
           idx == users[u].idx
           fetched == IF BASE_URL THEN {Strip(RemoteText(level_folder, idx))} \ {<<>>} ELSE {}
           placeholder == Placeholder(level_folder, idx)
       IN  last'.res = "issued" =>
              /\ idx <= LESSONS_PER_LEVEL
              /\ users'[u].awaiting
              /\ users'[u].expected_text \in fetched \cup {placeholder}
              /\ users'[u].expected_text # <<>>
              /\ Contains(placeholder, level_folder) /\ Contains(placeholder, Digit(idx))
              /\ users' = [users EXCEPT ![u].awaiting = TRUE,
                                        ![u].expected_text = users'[u].expected_text]]_vars

C10_Witness ==
    /\ last.res = "issued"
    /\ BASE_URL
    /\ users[last.user].awaiting
    /\ users[last.user].level = "hard" /\ users[last.user].idx = 2
    /\ users[last.user].expected_text = Placeholder("hard", 2)

\* C11: a level choice, whatever the row was before (none, mid-level,
\* awaiting or not), leaves the row with the folder of the chosen label,
\* position 1, correct_count 0, awaiting false and no expected_text; the
\* handler then reads that row and, when it ends with the lesson issued, the
\* row has awaiting set and the text (or the placeholder) of lesson 1 of the
\* chosen level, with position 1 and correct_count 0 still.
LessonTexts(level_folder, idx) ==
    ({Strip(RemoteText(level_folder, idx))} \ {<<>>}) \cup {Placeholder(level_folder, idx)}

C11_LevelChoice ==
    [][LET u == last'.user IN
       /\ last'.res = "chosen" =>
             /\ last'.msg \in Labels
             /\ users'[u] = [chat_id |-> ChatOf(u),
                             level |-> map_level_label_to_folder(last'.msg),
                             idx |-> 1, awaiting |-> FALSE, correct_count |-> 0,
                             expected_text |-> <<>>]
             /\ users'[u].level \in Folders
       /\ (last'.ev = "level" /\ last'.res = "lesson_read") => users' = users
       /\ (last'.ev = "level" /\ last'.res \notin {"chosen", "lesson_read", "raised"}) =>
             /\ last'.res = "issued"
             /\ HasRow(u)
             /\ ~users[u].awaiting /\ users[u].expected_text = <<>>
             /\ users'[u].expected_text \in LessonTexts(users[u].level, 1)
             /\ users'[u] = [users[u] EXCEPT !.idx = 1, !.correct_count = 0,
                                             !.awaiting = TRUE,
                                             !.expected_text = users'[u].expected_text]]_vars

C11_Witness ==
    /\ last.ev = "level" /\ last.res = "issued"
    /\ users[last.user].level = "hard" /\ users[last.user].idx = 1
    /\ users[last.user].correct_count = 0 /\ users[last.user].awaiting
    /\ users[last.user].expected_text = Strip(RemoteText("hard", 1))

\* C12: an upsert on an existing row overwrites exactly the fields passed
\* and keeps every other field; an upsert that creates the row gives every
\* field not passed its default (level unset, position 1, awaiting false,
\* correct_count 0, expected_text empty) and stores every passed value as
\* given.
Defaults ==
    [level |-> "", idx |-> 1, awaiting |-> FALSE, correct_count |-> 0,
     expected_text |-> <<>>]

FailureNotice ==
    [download_failed |-> "not_downloaded", no_key |-> "no_api_key",
     transcribe_failed |-> "transcribe_error"]

C13_FailureKeepsRow ==
    [][LET u == last'.user IN
       (last'.ev = "voice" /\ last'.res \in DOMAIN FailureNotice) =>
          /\ last'.msg = FailureNotice[last'.res]
          /\ users' = users
          /\ HasRow(u) /\ users'[u].awaiting
          /\ \E t \in Slots : /\ tasks[t].user = u /\ tasks[t].handler = "voice"
                              /\ tasks'[t] = Idle
                              /\ users'[u] = tasks[t].user_row]_vars

C13_Witness ==
    /\ last.ev = "voice" /\ last.res = "transcribe_failed"
    /\ users[last.user].awaiting
    /\ users[last.user].idx = 2 /\ users[last.user].correct_count = 1
    /\ users[last.user].expected_text = Strip(RemoteText("hard", 2))

\* C14: a temporary audio file exists only while the voice handler that
\* created it is waiting for the transcription: once the handler has
\* returned or raised, on whatever path, its file is gone.
C14_TempFileRemoved ==
    \A t \in files : tasks[t].handler = "voice" /\ tasks[t].pc = "transcribe"

\* C15: correct_count goes down only in a step that restarts the level
\* (level choice, /start, completion); such a step leaves it 0; and it goes
\* up only by an accepted answer, by one from the value it has then, so
\* that a submission suspended across a restart cannot bring an older count
\* back.
Restarts(e) == e.ev = "start" \/ e.res = "chosen" \/ e.res = "completed"

C15_CountMonotone ==
    [][\A u \in Users :
          (HasRow(u) /\ last'.user = u) =>
             /\ users'[u].correct_count < users[u].correct_count => Restarts(last')
             /\ Restarts(last') => users'[u].correct_count = 0
             /\ users'[u].correct_count > users[u].correct_count =>
                   /\ last'.res = "accept"
                   /\ users'[u].correct_count = users[u].correct_count + 1]_vars

\* C15 without the reset at completion: what is left is about the order of
\* the steps alone -- the count never goes down outside a restart and goes up
\* by one at a time
C15_CountSteps ==
    [][\A u \in Users :
          (HasRow(u) /\ last'.user = u) =>
             /\ users'[u].correct_count < users[u].correct_count => Restarts(last')
             /\ users'[u].correct_count > users[u].correct_count =>
                   /\ last'.res = "accept"
                   /\ users'[u].correct_count = users[u].correct_count + 1]_vars

\* C16: the verdict on an answer and the row it leaves are one function of
\* the user's row and of the candidate text, whichever handler compared
\* them: the score is that of the stored text (or, when none is stored, of a
\* text fetched for the row's level and position) against the candidate; at
\* 0.75 or more the answer is accepted, awaiting is cleared and
\* correct_count goes up by one; below, the row stays as it is.
Verdict(row, expected, cand) ==
    IF similarity(expected, cand) >= THRESHOLD
    THEN <<"accept", [row EXCEPT !.awaiting = FALSE, !.correct_count = @ + 1]>>
    ELSE <<"reject", row>>

C16_ChannelAgnostic ==
    [][last'.res \in {"accept", "reject"} =>
         LET u == last'.user
             row == users[u]
             stored == Strip(row.expected_text)
             expected == IF stored # <<>> THEN {stored}
                         ELSE fetch_text_from_base(row.level, row.idx)
         IN  /\ last'.ev \in {"voice", "text"}
             /\ \E e \in expected :
                   /\ last'.sim = similarity(e, last'.cand)
                   /\ <<last'.res, users'[u]>> = Verdict(row, e, last'.cand)]_vars

C16_Witness ==
    /\ last.ev = "voice" /\ last.res = "reject"
    /\ last.cand = <<"a", "b">> /\ last.sim = similarity(<<"a", "b", "c", "1">>, <<"a", "b">>)
    /\ users[last.user].awaiting
    /\ users[last.user].expected_text = <<"a", "b", "c", "1">>

\* C17: /start creates the row of a user who has none, with level unset,
\* position 1, awaiting false, correct_count 0 and no expected_text; on an
\* existing row it sets position 1, awaiting false, correct_count 0 and no
\* expected_text and keeps the level; and no step of any handler takes a
\* row away.
C17_StartInPlace ==
    [][/\ last'.ev = "start" =>
             LET u == last'.user IN
             /\ users'[u] =
                   IF users[u] = None
                   THEN [chat_id |-> ChatOf(u), level |-> "", idx |-> 1,
                         awaiting |-> FALSE, correct_count |-> 0, expected_text |-> <<>>]
                   ELSE [users[u] EXCEPT !.idx = 1, !.awaiting = FALSE,
                                         !.correct_count = 0, !.expected_text = <<>>]
             /\ \A v \in Users \ {u} : users'[v] = users[v]
       /\ \A u \in Users : HasRow(u) => users'[u] # None]_vars

C17_Witness ==
    /\ last.ev = "start"
    /\ HasRow(last.user)
    /\ users[last.user].level = "hard" /\ users[last.user].idx = 1
    /\ ~users[last.user].awaiting /\ users[last.user].correct_count = 0
    /\ users[last.user].expected_text = <<>>

\* C18: the position of every row is between 1 and LESSONS_PER_LEVEL, the
\* lesson-issue routine never finds a position above LESSONS_PER_LEVEL, and
\* completion is only ever reached by skip and next, from their own test of
\* the incremented position.
C18_PositionInRange ==
    /\ \A u \in Users : HasRow(u) => users[u].idx \in 1..LESSONS_PER_LEVEL
    /\ \A t \in Slots : tasks[t].pc = "issue" => tasks[t].idx \in 1..LESSONS_PER_LEVEL
    /\ last.res = "completed" => last.ev \in {"skip", "next"} /\ last.msg = "level_finished"

C18_Witness ==
    /\ last.res = "completed" /\ last.ev = "next"
    /\ users[last.user].idx = 1 /\ users[last.user].level = "hard"

\* C19: a lesson is credited at most once: correct_count never exceeds the
\* number of lessons issued in the current run of the level, which is the
\* position of the row.
C19_CreditedOnce ==
    \A u \in Users : HasRow(u) => users[u].correct_count <= users[u].idx

\* C20: whenever no handler of a user is in flight and the user's row is
\* awaiting, its expected_text is the reference text, or the placeholder, of
\* the row's level and position.
LevelFolder(row) == IF row.level # "" THEN row.level ELSE "easy"

C20_ExpectedOfPosition ==
    \A u \in Users :
       (HasRow(u) /\ ~Busy(u) /\ users[u].awaiting) =>
          users[u].expected_text \in LessonTexts(LevelFolder(users[u]), users[u].idx)

\* C20 for the rows that hold a text: the text is never that of another
\* position or level
C20_StoredTextOfPosition ==
    \A u \in Users :
       (HasRow(u) /\ ~Busy(u) /\ users[u].awaiting /\ users[u].expected_text # <<>>) =>
          users[u].expected_text \in LessonTexts(LevelFolder(users[u]), users[u].idx)

\* C21: an accept is applied only to the lesson it was graded against: when
\* the row holds a lesson issued after the suspended handler read the row
\* (it is awaiting with a stored text, and its level, position or text is
\* not what the handler read), the handler's accept leaves awaiting and
\* correct_count of the row as they are.
SameLesson(row, read) ==
    /\ row.level = read.level
    /\ row.idx = read.idx
    /\ row.expected_text = read.expected_text

====
